---------------------------- MODULE Spec2Model ----------------------------
(***************************************************************************)
(* Model of http_simple_ota.ino: the boot-time OTA client for ESP32.       *)
(*                                                                         *)
(* checkForUpdate() builds the firmware URL and calls performHttpUpdate(), *)
(* which issues the HTTP GET, opens the staging partition (Update.begin),  *)
(* copies the response body into it chunk by chunk, finalizes it and       *)
(* restarts the device.  The HTTP client, the network stream and the       *)
(* Update library are collaborators outside the sketch: every answer they  *)
(* can give is a nondeterministic choice.  The stream is observed by the   *)
(* sketch through available(), connected() and readBytes(), three separate *)
(* calls between which data may arrive and the peer may disconnect.        *)
(***************************************************************************)
EXTENDS Integers, Sequences, FiniteSets, TLC

(* ------------------------------ bounds -------------------------------- *)

\* number of separate data arrivals on the stream during one session
MaxArrivals == 3

\* the millis() counter wraps at this many ticks; it stands for the 2^32
\* milliseconds of unsigned long, scaled down with intervalMs
MillisWrap == 16

\* longest time, in ticks, one delay(), connectToWifi() or checkForUpdate() takes
MaxElapse == 2

\* number of collaborator answers recorded in one run of performHttpUpdate
MaxScript == 10

(* ------------------------- program constants -------------------------- *)

\* const unsigned long intervalMs (6 hours), in ticks of the scaled counter
intervalMs == 6

\* sizeof(buffer), uint8_t buffer[2048]
BufSize == 2048

\* HTTP_CODE_OK
HTTP_CODE_OK == 200

\* UPDATE_SIZE_UNKNOWN of Update.h, the argument of Update.begin when the
\* server declared no usable length; a size hint is [mode |-> "size", size |-> n]
UPDATE_SIZE_UNKNOWN == [mode |-> "unknown", size |-> 0]

\* Update.begin has not been called
NotCalled == [mode |-> "none", size |-> 0]

(* --------------------------- input domains ---------------------------- *)

\* sizes of one data arrival on the stream: smaller than, and equal to, the
\* read buffer (two arrivals of 2048 exceed the buffer)
ArrivalSizes == {100, BufSize}

\* values of http.getSize(): -1 (no Content-Length), 0, and positive sizes
ContentLengths == {-1, 0, 100, 2 * BufSize}

\* values of http.GET(): 200, other statuses, and a negative client error
HttpCodes == {HTTP_CODE_OK, 204, 304, 404, -1}

\* the URL scheme checkForUpdate() ends up with (from OTA_SERVER)
Schemes == {"http", "https", "other"}

(* ------------------------------- state -------------------------------- *)

VARIABLES
    pc,             \* position of the sketch
    scheme,         \* scheme of the url passed to performHttpUpdate
    httpCode,       \* int httpCode = http.GET()
    contentLength,  \* int contentLength = http.getSize()
    beginArg,       \* argument Update.begin was called with (NotCalled: no call)
    beginOk,        \* result of Update.begin ("none": not called)
    available,      \* size_t available, as last sampled and capped
    bytesRead,      \* int bytesRead of the current iteration
    totalWritten,   \* size_t totalWritten
    outcome,        \* which exit of performHttpUpdate was taken
    ret,            \* value performHttpUpdate returned ("none": has not returned)
    restartBy,      \* the function that called ESP.restart() ("none": nobody)
    \* the network stream (collaborator)
    avail,          \* bytes buffered in the stream, not yet read
    connected,      \* stream->connected()
    offered,        \* bytes the stream made available so far in the session
    arrivals,       \* number of data arrivals so far
    \* calls made on the collaborators
    getCalls,       \* http.GET()
    httpEndCalls,   \* http.end()
    polled,         \* stream->available() has been called
    readCalls,      \* stream->readBytes()
    writeCalls,     \* Update.write()
    shortWrites,    \* Update.write() calls that acknowledged another count
    endCalls,       \* Update.end()
    endOk,          \* result of Update.end() ("none": not called)
    finishedCalls,  \* Update.isFinished()
    finished,       \* result of Update.isFinished() ("none": not called)
    abortCalls,     \* Update.abort()
    \* what the calls were made with
    httpBeginOk,    \* result of http.begin ("none": not called)
    beginCalls,     \* Update.begin()
    sampled,        \* value stream->available() returned last
    readReq,        \* length the last stream->readBytes() asked for
    writeLen,       \* length the last Update.write() was given
    ackedSum,       \* sum of the counts of the fully acknowledged writes
    \* setup() and loop()
    lpc,            \* position of setup()/loop()
    millis,         \* the millis() counter
    wifi,           \* WiFi.status() == WL_CONNECTED
    lastCheck,      \* static unsigned long lastCheck
    now,            \* unsigned long now
    prevAt,         \* `now` of the last check of the periodic branch (-1: none)
    gap,            \* millis() time between the last two such checks (-1: none)
    offlineCheck,   \* the periodic branch made a check with Wi-Fi not connected
    \* two runs of performHttpUpdate on the same answers
    run,            \* 0: one run, nothing recorded; 1: first run; 2: second run
    script,         \* the answers the collaborators gave the first run, in order
    idx,            \* position in script of the next answer of the second run
    outcome1,       \* outcome of the first run
    total1          \* totalWritten at the end of the first run

streamVars == <<avail, connected, offered, arrivals>>
callVars == <<getCalls, httpEndCalls, polled, readCalls, writeCalls, shortWrites, endCalls, endOk,
              finishedCalls, finished, abortCalls>>
auditVars == <<httpBeginOk, beginCalls, sampled, readReq, writeLen, ackedSum>>
schedVars == <<lpc, millis, wifi, lastCheck, now, prevAt, gap, offlineCheck>>
replayVars == <<run, script, idx, outcome1, total1>>
vars == <<pc, scheme, httpCode, contentLength, beginArg, beginOk, available,
          bytesRead, totalWritten, outcome, ret, restartBy,
          avail, connected, offered, arrivals,
          getCalls, httpEndCalls, polled, readCalls, writeCalls, shortWrites, endCalls, endOk,
          finishedCalls, finished, abortCalls,
          httpBeginOk, beginCalls, sampled, readReq, writeLen, ackedSum,
          lpc, millis, wifi, lastCheck, now, prevAt, gap, offlineCheck,
          run, script, idx, outcome1, total1>>

\* everything performHttpUpdate and checkForUpdate work on
transferVars == <<pc, scheme, httpCode, contentLength, beginArg, beginOk, available,
                  bytesRead, totalWritten, outcome, ret, restartBy,
                  streamVars, callVars, auditVars, replayVars>>

\* positions inside the copy loop of performHttpUpdate
LoopPcs == {"poll", "checkConnected", "read", "write"}

\* the sketch and its collaborators at power-on
Boot ==
    /\ pc = "checkForUpdate"
    /\ scheme = "none"
    /\ httpCode = 0
    /\ contentLength = 0
    /\ beginArg = NotCalled
    /\ beginOk = "none"
    /\ available = 0
    /\ bytesRead = 0
    /\ totalWritten = 0
    /\ outcome = "none"
    /\ ret = "none"
    /\ restartBy = "none"
    /\ avail = 0
    /\ connected = TRUE
    /\ offered = 0
    /\ arrivals = 0
    /\ getCalls = 0
    /\ httpEndCalls = 0
    /\ polled = FALSE
    /\ readCalls = 0
    /\ writeCalls = 0
    /\ shortWrites = 0
    /\ endCalls = 0
    /\ endOk = "none"
    /\ finishedCalls = 0
    /\ finished = "none"
    /\ abortCalls = 0
    /\ httpBeginOk = "none"
    /\ beginCalls = 0
    /\ sampled = 0
    /\ readReq = 0
    /\ writeLen = 0
    /\ ackedSum = 0
    /\ lpc = "setup"
    /\ millis = 0
    /\ wifi = FALSE
    /\ lastCheck = 0
    /\ now = 0
    /\ prevAt = -1
    /\ gap = -1
    /\ offlineCheck = FALSE

\* nothing recorded yet, in mode r
Recorder(r) ==
    /\ run = r
    /\ script = <<>>
    /\ idx = 1
    /\ outcome1 = "none"
    /\ total1 = 0

Init == Boot /\ Recorder(0)

\* the same start, with the answers of the first run being recorded
ReplayInit == Boot /\ Recorder(1)

(* ------------------------------ helpers ------------------------------- *)

\* a boolean answer of a collaborator, as recorded ("none": never asked)
Answer(b) == IF b THEN "true" ELSE "false"

\* return false from performHttpUpdate through the exit `reason`
ReturnFalse(reason) ==
    /\ outcome' = reason
    /\ ret' = "false"
    /\ pc' = "returned"

\* a declared length of 0 is passed on as a size hint
BeginSize_zeroIsSize(len) ==
    IF len >= 0 THEN [mode |-> "size", size |-> len] ELSE UPDATE_SIZE_UNKNOWN

\* Update.begin(contentLength > 0 ? (size_t)contentLength : UPDATE_SIZE_UNKNOWN)
BeginSize(len) ==
    IF len > 0 THEN [mode |-> "size", size |-> len] ELSE UPDATE_SIZE_UNKNOWN

\* every 2xx status is taken for a firmware response
HttpOk_any2xx(code) == code >= 200 /\ code < 300

\* httpCode != HTTP_CODE_OK is the "no update" exit
HttpOk(code) == code = HTTP_CODE_OK

\* the sampled count is not capped to the buffer
ChunkSize_uncapped(n) == n

\* if (available > sizeof(buffer)) available = sizeof(buffer);
ChunkSize(n) == IF n > BufSize THEN BufSize ELSE n

\* a write that stored part of the chunk is taken for a good one
WriteAcked_partial(ack, n) == ack > 0

\* Update.write(buffer, bytesRead) != (size_t)bytesRead is the write error
WriteAcked(ack, n) == ack = n

\* an empty poll leaves the loop whether or not the stream is connected
StreamClosed_always(conn) == TRUE

\* the closed stream is never noticed
StreamClosed_never(conn) == FALSE

\* if (!stream->connected()) break;
StreamClosed(conn) == ~conn

\* totalWritten = bytesRead;
AddWritten_assign(total, n) == n

\* totalWritten += bytesRead;
AddWritten(total, n) == total + n

\* results of stream->readBytes(buffer, n): nothing (timeout), the whole
\* request, or part of it (half of a full buffer)
ReadResults(n) == {0, n} \cup (IF n = BufSize THEN {BufSize \div 2} ELSE {})

\* results of Update.write(buffer, n): all of it, nothing, or one byte less
WriteResults(n) == {n, 0, n - 1}

\* a boolean answer as a number
Bit(b) == IF b THEN 1 ELSE 0

\* the sketch, at position pc, is given the answer <<a, b>> by a collaborator:
\* the first run records it, the second run is given the recorded answers
Observe(a, b) ==
    /\ CASE run = 0 -> UNCHANGED <<script, idx>>
         [] run = 1 -> /\ Len(script) < MaxScript
                       /\ script' = Append(script, <<pc, a, b>>)
                       /\ UNCHANGED idx
         [] OTHER   -> /\ idx <= Len(script)
                       /\ script[idx] = <<pc, a, b>>
                       /\ idx' = idx + 1
                       /\ UNCHANGED script
    /\ UNCHANGED <<run, outcome1, total1>>

(* --------------------------- checkForUpdate --------------------------- *)

\* checkForUpdate(): returns at once when the endpoint is not configured,
\* otherwise calls performHttpUpdate(url)
CheckForUpdate ==
    /\ pc = "checkForUpdate"
    /\ \E configured \in BOOLEAN :
          IF ~configured
          THEN /\ pc' = "idle"
               /\ UNCHANGED scheme
          ELSE /\ \E s \in Schemes : scheme' = s
               /\ pc' = "entry"
    /\ UNCHANGED <<httpCode, contentLength, beginArg, beginOk, available,
                   bytesRead, totalWritten, outcome, ret, restartBy>>
    /\ UNCHANGED streamVars
    /\ UNCHANGED callVars
    /\ UNCHANGED auditVars
    /\ UNCHANGED schedVars
    /\ UNCHANGED replayVars

\* performHttpUpdate returned to checkForUpdate, which ignores the value and
\* returns
CheckForUpdateReturn ==
    /\ pc = "returned"
    /\ pc' = "idle"
    /\ UNCHANGED <<scheme, httpCode, contentLength, beginArg, beginOk, available,
                   bytesRead, totalWritten, outcome, ret, restartBy>>
    /\ UNCHANGED streamVars
    /\ UNCHANGED callVars
    /\ UNCHANGED auditVars
    /\ UNCHANGED schedVars
    /\ UNCHANGED replayVars

(* ------------------------- performHttpUpdate -------------------------- *)

\* the scheme check and http.begin(*client, url)
HttpBegin ==
    /\ pc = "entry"
    /\ IF scheme \notin {"http", "https"}
       THEN /\ ReturnFalse("UnsupportedScheme")
            /\ UNCHANGED httpBeginOk
            /\ UNCHANGED replayVars
       ELSE \E ok \in BOOLEAN :
               /\ httpBeginOk' = Answer(ok)
               /\ Observe(Bit(ok), 0)
               /\ IF ~ok
                  THEN ReturnFalse("HttpBeginFailed")
                  ELSE /\ pc' = "get"
                       /\ UNCHANGED <<outcome, ret>>
    /\ UNCHANGED <<scheme, httpCode, contentLength, beginArg, beginOk, available,
                   bytesRead, totalWritten, restartBy>>
    /\ UNCHANGED streamVars
    /\ UNCHANGED callVars
    /\ UNCHANGED <<beginCalls, sampled, readReq, writeLen, ackedSum>>
    /\ UNCHANGED schedVars

\* http.GET(), the status check and http.getSize()
HttpGet ==
    /\ pc = "get"
    /\ getCalls' = getCalls + 1
    /\ \E code \in HttpCodes :
          /\ httpCode' = code
          /\ IF ~HttpOk(code)
             THEN /\ httpEndCalls' = httpEndCalls + 1
                  /\ ReturnFalse("NoUpdate")
                  /\ UNCHANGED contentLength
                  /\ Observe(code, 0)
             ELSE /\ \E len \in ContentLengths :
                        /\ contentLength' = len
                        /\ Observe(code, len)
                  /\ pc' = "updateBegin"
                  /\ UNCHANGED <<outcome, ret, httpEndCalls>>
    /\ UNCHANGED <<scheme, beginArg, beginOk, available, bytesRead, totalWritten,
                   restartBy>>
    /\ UNCHANGED streamVars
    /\ UNCHANGED <<polled, readCalls, writeCalls, shortWrites, endCalls, endOk,
                   finishedCalls, finished, abortCalls>>
    /\ UNCHANGED auditVars
    /\ UNCHANGED schedVars

\* the result of Update.begin(...) is not checked
UpdateBegin_unchecked ==
    /\ pc = "updateBegin"
    /\ beginArg' = BeginSize(contentLength)
    /\ \E ok \in BOOLEAN :
          /\ beginOk' = Answer(ok)
          /\ Observe(Bit(ok), 0)
    /\ totalWritten' = 0
    /\ pc' = "poll"
    /\ UNCHANGED <<scheme, httpCode, contentLength, available, bytesRead,
                   outcome, ret, restartBy>>
    /\ UNCHANGED streamVars
    /\ UNCHANGED callVars
    /\ beginCalls' = beginCalls + 1
    /\ UNCHANGED <<httpBeginOk, sampled, readReq, writeLen, ackedSum>>
    /\ UNCHANGED schedVars

\* totalWritten keeps its value from one call to the next (a static)
UpdateBegin_noReset ==
    /\ pc = "updateBegin"
    /\ beginArg' = BeginSize(contentLength)
    /\ \E ok \in BOOLEAN :
          /\ beginOk' = Answer(ok)
          /\ Observe(Bit(ok), 0)
          /\ IF ~ok
             THEN /\ httpEndCalls' = httpEndCalls + 1
                  /\ ReturnFalse("StagingBeginFailed")
             ELSE /\ pc' = "poll"
                  /\ UNCHANGED <<outcome, ret, httpEndCalls>>
    /\ UNCHANGED <<scheme, httpCode, contentLength, available, bytesRead,
                   totalWritten, restartBy>>
    /\ UNCHANGED streamVars
    /\ UNCHANGED <<getCalls, polled, readCalls, writeCalls, shortWrites, endCalls,
                   endOk, finishedCalls, finished, abortCalls>>
    /\ beginCalls' = beginCalls + 1
    /\ UNCHANGED <<httpBeginOk, sampled, readReq, writeLen, ackedSum>>
    /\ UNCHANGED schedVars

\* Update.begin(...) and the declaration of totalWritten
UpdateBegin ==
    /\ pc = "updateBegin"
    /\ beginArg' = BeginSize(contentLength)
    /\ \E ok \in BOOLEAN :
          /\ beginOk' = Answer(ok)
          /\ Observe(Bit(ok), 0)
          /\ IF ~ok
             THEN /\ httpEndCalls' = httpEndCalls + 1
                  /\ ReturnFalse("StagingBeginFailed")
                  /\ UNCHANGED totalWritten
             ELSE /\ totalWritten' = 0
                  /\ pc' = "poll"
                  /\ UNCHANGED <<outcome, ret, httpEndCalls>>
    /\ UNCHANGED <<scheme, httpCode, contentLength, available, bytesRead,
                   restartBy>>
    /\ UNCHANGED streamVars
    /\ UNCHANGED <<getCalls, polled, readCalls, writeCalls, shortWrites, endCalls,
                   endOk, finishedCalls, finished, abortCalls>>
    /\ beginCalls' = beginCalls + 1
    /\ UNCHANGED <<httpBeginOk, sampled, readReq, writeLen, ackedSum>>
    /\ UNCHANGED schedVars

\* size_t available = stream->available(); and the cap to sizeof(buffer)
PollAvailable ==
    /\ pc = "poll"
    /\ IF avail = 0
       THEN /\ available' = 0
            /\ pc' = "checkConnected"
       ELSE /\ available' = ChunkSize(avail)
            /\ pc' = "read"
    /\ polled' = TRUE
    /\ UNCHANGED <<scheme, httpCode, contentLength, beginArg, beginOk, bytesRead,
                   totalWritten, outcome, ret, restartBy>>
    /\ UNCHANGED streamVars
    /\ UNCHANGED <<getCalls, httpEndCalls, readCalls, writeCalls, shortWrites,
                   endCalls, endOk, finishedCalls, finished, abortCalls>>
    /\ sampled' = avail
    /\ Observe(avail, 0)
    /\ UNCHANGED <<httpBeginOk, beginCalls, readReq, writeLen, ackedSum>>
    /\ UNCHANGED schedVars

\* if (!stream->connected()) break;  delay(10); continue;
CheckConnected ==
    /\ pc = "checkConnected"
    /\ IF StreamClosed(connected)
       THEN pc' = "updateEnd"
       ELSE pc' = "poll"
    /\ UNCHANGED <<scheme, httpCode, contentLength, beginArg, beginOk, available,
                   bytesRead, totalWritten, outcome, ret, restartBy>>
    /\ UNCHANGED streamVars
    /\ UNCHANGED callVars
    /\ UNCHANGED auditVars
    /\ UNCHANGED schedVars
    /\ Observe(Bit(connected), 0)

\* int bytesRead = stream->readBytes(buffer, available);
\* if (bytesRead <= 0) break;
ReadBytes ==
    /\ pc = "read"
    /\ \E r \in ReadResults(available) :
          /\ bytesRead' = r
          /\ Observe(r, 0)
          /\ avail' = avail - r
          /\ IF r <= 0 THEN pc' = "updateEnd" ELSE pc' = "write"
    /\ readCalls' = readCalls + 1
    /\ UNCHANGED <<scheme, httpCode, contentLength, beginArg, beginOk, available,
                   totalWritten, outcome, ret, restartBy>>
    /\ UNCHANGED <<connected, offered, arrivals>>
    /\ UNCHANGED <<getCalls, httpEndCalls, polled, writeCalls, shortWrites,
                   endCalls, endOk, finishedCalls, finished, abortCalls>>
    /\ readReq' = available
    /\ UNCHANGED <<httpBeginOk, beginCalls, sampled, writeLen, ackedSum>>
    /\ UNCHANGED schedVars

\* a short write aborts the partition and the loop goes on
UpdateWrite_retry ==
    /\ pc = "write"
    /\ writeCalls' = writeCalls + 1
    /\ writeLen' = bytesRead
    /\ \E ack \in WriteResults(bytesRead) :
          /\ Observe(ack, 0)
          /\ ackedSum' = ackedSum + (IF ack = bytesRead THEN ack ELSE 0)
          /\ shortWrites' = shortWrites + (IF ack # bytesRead THEN 1 ELSE 0)
          /\ IF ~WriteAcked(ack, bytesRead)
             THEN /\ abortCalls' = abortCalls + 1
                  /\ pc' = "poll"
                  /\ UNCHANGED <<totalWritten, outcome, ret, httpEndCalls>>
             ELSE /\ totalWritten' = AddWritten(totalWritten, bytesRead)
                  /\ pc' = "poll"
                  /\ UNCHANGED <<outcome, ret, abortCalls, httpEndCalls>>
    /\ UNCHANGED <<scheme, httpCode, contentLength, beginArg, beginOk, available,
                   bytesRead, restartBy>>
    /\ UNCHANGED streamVars
    /\ UNCHANGED <<getCalls, polled, readCalls, endCalls, endOk, finishedCalls,
                   finished>>
    /\ UNCHANGED <<httpBeginOk, beginCalls, sampled, readReq>>
    /\ UNCHANGED schedVars

\* Update.write(buffer, bytesRead), the write-error exit, totalWritten += bytesRead
UpdateWrite ==
    /\ pc = "write"
    /\ writeCalls' = writeCalls + 1
    /\ writeLen' = bytesRead
    /\ \E ack \in WriteResults(bytesRead) :
          /\ Observe(ack, 0)
          /\ ackedSum' = ackedSum + (IF ack = bytesRead THEN ack ELSE 0)
          /\ shortWrites' = shortWrites + (IF ack # bytesRead THEN 1 ELSE 0)
          /\ IF ~WriteAcked(ack, bytesRead)
             THEN /\ abortCalls' = abortCalls + 1
                  /\ httpEndCalls' = httpEndCalls + 1
                  /\ ReturnFalse("WriteError")
                  /\ UNCHANGED totalWritten
             ELSE /\ totalWritten' = AddWritten(totalWritten, bytesRead)
                  /\ pc' = "poll"
                  /\ UNCHANGED <<outcome, ret, abortCalls, httpEndCalls>>
    /\ UNCHANGED <<scheme, httpCode, contentLength, beginArg, beginOk, available,
                   bytesRead, restartBy>>
    /\ UNCHANGED streamVars
    /\ UNCHANGED <<getCalls, polled, readCalls, endCalls, endOk, finishedCalls,
                   finished>>
    /\ UNCHANGED <<httpBeginOk, beginCalls, sampled, readReq>>
    /\ UNCHANGED schedVars

\* the result of Update.end() is not checked
UpdateEnd_unchecked ==
    /\ pc = "updateEnd"
    /\ endCalls' = endCalls + 1
    /\ \E ok \in BOOLEAN :
          /\ endOk' = Answer(ok)
          /\ Observe(Bit(ok), 0)
    /\ pc' = "isFinished"
    /\ UNCHANGED <<scheme, httpCode, contentLength, beginArg, beginOk, available,
                   bytesRead, totalWritten, outcome, ret, restartBy>>
    /\ UNCHANGED streamVars
    /\ UNCHANGED <<getCalls, httpEndCalls, polled, readCalls, writeCalls,
                   shortWrites, finishedCalls, finished, abortCalls>>
    /\ UNCHANGED auditVars
    /\ UNCHANGED schedVars

\* the Update.end() failure exit returns without http.end()
UpdateEnd_leaksHttp ==
    /\ pc = "updateEnd"
    /\ endCalls' = endCalls + 1
    /\ \E ok \in BOOLEAN :
          /\ endOk' = Answer(ok)
          /\ Observe(Bit(ok), 0)
          /\ IF ~ok
             THEN /\ ReturnFalse("FinalizeFailed")
                  /\ UNCHANGED httpEndCalls
             ELSE /\ pc' = "isFinished"
                  /\ UNCHANGED <<outcome, ret, httpEndCalls>>
    /\ UNCHANGED <<scheme, httpCode, contentLength, beginArg, beginOk, available,
                   bytesRead, totalWritten, restartBy>>
    /\ UNCHANGED streamVars
    /\ UNCHANGED <<getCalls, polled, readCalls, writeCalls, shortWrites,
                   finishedCalls, finished, abortCalls>>
    /\ UNCHANGED auditVars
    /\ UNCHANGED schedVars

\* if (!Update.end()) { http.end(); return false; }
UpdateEnd ==
    /\ pc = "updateEnd"
    /\ endCalls' = endCalls + 1
    /\ \E ok \in BOOLEAN :
          /\ endOk' = Answer(ok)
          /\ Observe(Bit(ok), 0)
          /\ IF ~ok
             THEN /\ httpEndCalls' = httpEndCalls + 1
                  /\ ReturnFalse("FinalizeFailed")
             ELSE /\ pc' = "isFinished"
                  /\ UNCHANGED <<outcome, ret, httpEndCalls>>
    /\ UNCHANGED <<scheme, httpCode, contentLength, beginArg, beginOk, available,
                   bytesRead, totalWritten, restartBy>>
    /\ UNCHANGED streamVars
    /\ UNCHANGED <<getCalls, polled, readCalls, writeCalls, shortWrites,
                   finishedCalls, finished, abortCalls>>
    /\ UNCHANGED auditVars
    /\ UNCHANGED schedVars

\* the success path returns true and leaves the restart to the caller
UpdateIsFinished_returnsTrue ==
    /\ pc = "isFinished"
    /\ finishedCalls' = finishedCalls + 1
    /\ httpEndCalls' = httpEndCalls + 1
    /\ \E fin \in BOOLEAN :
          /\ finished' = Answer(fin)
          /\ Observe(Bit(fin), 0)
          /\ IF ~fin
             THEN ReturnFalse("IncompleteTransfer")
             ELSE /\ outcome' = "Succeeded"
                  /\ ret' = "true"
                  /\ pc' = "returned"
    /\ UNCHANGED <<scheme, httpCode, contentLength, beginArg, beginOk, available,
                   bytesRead, totalWritten, restartBy>>
    /\ UNCHANGED streamVars
    /\ UNCHANGED <<getCalls, polled, readCalls, writeCalls, shortWrites, endCalls,
                   endOk, abortCalls>>
    /\ UNCHANGED auditVars
    /\ UNCHANGED schedVars

\* the result of Update.isFinished() is not checked
UpdateIsFinished_unchecked ==
    /\ pc = "isFinished"
    /\ finishedCalls' = finishedCalls + 1
    /\ httpEndCalls' = httpEndCalls + 1
    /\ \E fin \in BOOLEAN :
          /\ finished' = Answer(fin)
          /\ Observe(Bit(fin), 0)
          /\ outcome' = "Succeeded"
          /\ restartBy' = "performHttpUpdate"
          /\ pc' = "restarted"
          /\ UNCHANGED ret
    /\ UNCHANGED <<scheme, httpCode, contentLength, beginArg, beginOk, available,
                   bytesRead, totalWritten>>
    /\ UNCHANGED streamVars
    /\ UNCHANGED <<getCalls, polled, readCalls, writeCalls, shortWrites, endCalls,
                   endOk, abortCalls>>
    /\ UNCHANGED auditVars
    /\ UNCHANGED schedVars

\* if (!Update.isFinished()) { http.end(); return false; }
\* http.end(); delay(500); ESP.restart();   (ESP.restart() does not return)
UpdateIsFinished ==
    /\ pc = "isFinished"
    /\ finishedCalls' = finishedCalls + 1
    /\ httpEndCalls' = httpEndCalls + 1
    /\ \E fin \in BOOLEAN :
          /\ finished' = Answer(fin)
          /\ Observe(Bit(fin), 0)
          /\ IF ~fin
             THEN /\ ReturnFalse("IncompleteTransfer")
                  /\ UNCHANGED restartBy
             ELSE /\ outcome' = "Succeeded"
                  /\ restartBy' = "performHttpUpdate"
                  /\ pc' = "restarted"
                  /\ UNCHANGED ret
    /\ UNCHANGED <<scheme, httpCode, contentLength, beginArg, beginOk, available,
                   bytesRead, totalWritten>>
    /\ UNCHANGED streamVars
    /\ UNCHANGED <<getCalls, polled, readCalls, writeCalls, shortWrites, endCalls,
                   endOk, abortCalls>>
    /\ UNCHANGED auditVars
    /\ UNCHANGED schedVars

(* --------------------------- network stream --------------------------- *)

\* n more bytes of the response body arrive while the copy loop runs
Arrive ==
    /\ pc \in LoopPcs
    /\ connected
    /\ arrivals < MaxArrivals
    /\ \E n \in ArrivalSizes :
          /\ avail' = avail + n
          /\ offered' = offered + n
    /\ arrivals' = arrivals + 1
    /\ UNCHANGED connected
    /\ UNCHANGED <<pc, scheme, httpCode, contentLength, beginArg, beginOk, available,
                   bytesRead, totalWritten, outcome, ret, restartBy>>
    /\ UNCHANGED callVars
    /\ UNCHANGED auditVars
    /\ UNCHANGED schedVars
    /\ UNCHANGED replayVars

\* the peer closes the connection: nothing arrives afterwards
Disconnect ==
    /\ pc \in LoopPcs
    /\ connected
    /\ connected' = FALSE
    /\ UNCHANGED <<avail, offered, arrivals>>
    /\ UNCHANGED <<pc, scheme, httpCode, contentLength, beginArg, beginOk, available,
                   bytesRead, totalWritten, outcome, ret, restartBy>>
    /\ UNCHANGED callVars
    /\ UNCHANGED auditVars
    /\ UNCHANGED schedVars
    /\ UNCHANGED replayVars

(* --------------------------- specification ---------------------------- *)

\* the steps of the sketch itself
Sketch ==
    \/ CheckForUpdate
    \/ CheckForUpdateReturn
    \/ HttpBegin
    \/ HttpGet
    \/ UpdateBegin
    \/ PollAvailable
    \/ CheckConnected
    \/ ReadBytes
    \/ UpdateWrite
    \/ UpdateEnd
    \/ UpdateIsFinished

Next ==
    \/ Sketch
    \/ Arrive
    \/ Disconnect

Spec == Init /\ [][Next]_vars

\* the sketch is the running task: it always takes its next step (delay(10)
\* returns, and so does every call on a collaborator)
LiveSpec == Init /\ [][Next]_vars /\ WF_vars(Sketch)

(* ------------------ two runs of performHttpUpdate -------------------- *)
(* performHttpUpdate(url) is called again with the same url, on a new      *)
(* connection, and its collaborators give it the answers they gave the     *)
(* first call.  What the first call left in the variables of the function  *)
(* is still there: a local is given its value by its declaration, not by   *)
(* the call.                                                               *)

\* the first call has ended; the second call starts
NextRun ==
    /\ run = 1
    /\ outcome # "none"
    /\ pc \in {"returned", "idle", "restarted"}
    /\ run' = 2
    /\ idx' = 1
    /\ outcome1' = outcome
    /\ total1' = totalWritten
    /\ UNCHANGED script
    /\ pc' = "entry"
    /\ outcome' = "none"
    /\ ret' = "none"
    /\ restartBy' = "none"
    /\ UNCHANGED <<scheme, httpCode, contentLength, available, bytesRead, totalWritten>>
    /\ beginArg' = NotCalled
    /\ beginOk' = "none"
    /\ avail' = 0
    /\ connected' = TRUE
    /\ offered' = 0
    /\ arrivals' = 0
    /\ getCalls' = 0
    /\ httpEndCalls' = 0
    /\ polled' = FALSE
    /\ readCalls' = 0
    /\ writeCalls' = 0
    /\ shortWrites' = 0
    /\ endCalls' = 0
    /\ endOk' = "none"
    /\ finishedCalls' = 0
    /\ finished' = "none"
    /\ abortCalls' = 0
    /\ httpBeginOk' = "none"
    /\ beginCalls' = 0
    /\ sampled' = 0
    /\ readReq' = 0
    /\ writeLen' = 0
    /\ ackedSum' = 0
    /\ UNCHANGED schedVars

ReplayNext ==
    \/ Sketch
    \/ Arrive
    \/ Disconnect
    \/ NextRun

ReplaySpec == ReplayInit /\ [][ReplayNext]_vars

(* -------------------------- setup() and loop() ------------------------ *)
(* The scheduler around checkForUpdate().  Here a call of checkForUpdate() *)
(* is taken by what it does to the scheduler: it takes time, and it either *)
(* returns or, after a successful transfer, restarts the device.           *)

\* millis() after d more ticks
Elapsed(d) == (millis + d) % MillisWrap

\* (lastCheck == 0 || now - lastCheck >= intervalMs) && WiFi.status() == WL_CONNECTED
\* in unsigned arithmetic
PeriodicDue(last, t, w) ==
    (last = 0 \/ (t - last) % MillisWrap >= intervalMs) /\ w

\* ESP.restart(): the sketch starts over, statics and millis() at 0
Reboot ==
    /\ lpc' = "setup"
    /\ millis' = 0
    /\ wifi' = FALSE
    /\ lastCheck' = 0
    /\ now' = 0
    /\ prevAt' = -1

\* setup(): connectToWifi(), and checkForUpdate() when it connected
Setup ==
    /\ lpc = "setup"
    /\ \E d \in 1..MaxElapse, ok \in BOOLEAN, restarted \in BOOLEAN :
          IF ok /\ restarted
          THEN Reboot
          ELSE /\ wifi' = ok
               /\ millis' = Elapsed(d)
               /\ lpc' = "loopTop"
               /\ UNCHANGED <<lastCheck, now, prevAt>>
    /\ UNCHANGED <<gap, offlineCheck>>
    /\ UNCHANGED transferVars

\* loop(): if (WiFi.status() != WL_CONNECTED) { if (connectToWifi()) checkForUpdate(); }
LoopWifi ==
    /\ lpc = "loopTop"
    /\ IF ~wifi
       THEN \E d \in 1..MaxElapse, ok \in BOOLEAN, restarted \in BOOLEAN :
               IF ok /\ restarted
               THEN Reboot
               ELSE /\ wifi' = ok
                    /\ millis' = Elapsed(d)
                    /\ lpc' = "sample"
                    /\ UNCHANGED <<lastCheck, now, prevAt>>
       ELSE /\ lpc' = "sample"
            /\ UNCHANGED <<millis, wifi, lastCheck, now, prevAt>>
    /\ UNCHANGED <<gap, offlineCheck>>
    /\ UNCHANGED transferVars

\* loop(): now = millis(); the periodic branch: checkForUpdate(); lastCheck = now;
LoopPeriodic ==
    /\ lpc = "sample"
    /\ IF PeriodicDue(lastCheck, millis, wifi)
       THEN /\ gap' = IF prevAt = -1 THEN -1 ELSE (millis - prevAt) % MillisWrap
            /\ offlineCheck' = (offlineCheck \/ ~wifi)
            /\ \E d \in 0..MaxElapse, restarted \in BOOLEAN :
                  IF restarted
                  THEN Reboot
                  ELSE /\ now' = millis
                       /\ lastCheck' = millis
                       /\ prevAt' = millis
                       /\ millis' = Elapsed(d)
                       /\ lpc' = "delay"
                       /\ UNCHANGED wifi
       ELSE /\ now' = millis
            /\ lpc' = "delay"
            /\ UNCHANGED <<millis, wifi, lastCheck, prevAt, gap, offlineCheck>>
    /\ UNCHANGED transferVars

\* loop(): delay(1000);
LoopDelay ==
    /\ lpc = "delay"
    /\ \E d \in 1..MaxElapse : millis' = Elapsed(d)
    /\ lpc' = "loopTop"
    /\ UNCHANGED <<wifi, lastCheck, now, prevAt, gap, offlineCheck>>
    /\ UNCHANGED transferVars

\* the Wi-Fi link drops or comes back by itself
WifiChange ==
    /\ lpc # "setup"
    /\ wifi' = ~wifi
    /\ UNCHANGED <<lpc, millis, lastCheck, now, prevAt, gap, offlineCheck>>
    /\ UNCHANGED transferVars

LoopNext ==
    \/ Setup
    \/ LoopWifi
    \/ LoopPeriodic
    \/ LoopDelay
    \/ WifiChange

LoopSpec == Init /\ [][LoopNext]_vars

(* ------------------------------ claims -------------------------------- *)

\* performHttpUpdate has ended through one of its exits
Terminal == outcome # "none" /\ pc \in {"returned", "idle", "restarted"}

\* C1: whenever Update.begin succeeded and performHttpUpdate ends in a failure
\* (write error, Update.end() false, Update.isFinished() false), Update.abort()
\* has been called before it returns.
C1_AbortOnEveryFailure ==
    (/\ Terminal
     /\ beginOk = "true"
     /\ outcome \in {"WriteError", "FinalizeFailed", "IncompleteTransfer"})
        => abortCalls >= 1

\* C2: once an Update.write has acknowledged a count other than the chunk
\* length, the run has ended with the write-error exit, Update.abort() has been
\* called exactly once, Update.end() has not been called, and no later step
\* issues another Update.write, Update.end() or Update.abort().
C2_ShortWriteIsFatal ==
    /\ [](shortWrites >= 1 =>
            /\ outcome = "WriteError"
            /\ ret = "false"
            /\ abortCalls = 1
            /\ endCalls = 0
            /\ shortWrites = 1)
    /\ [][shortWrites >= 1 =>
            /\ writeCalls' = writeCalls
            /\ endCalls' = endCalls
            /\ abortCalls' = abortCalls]_vars

\* C2 witness: a run that ended on a short write, with the abort made
C2_Witness ==
    /\ pc = "idle"
    /\ shortWrites = 1
    /\ outcome = "WriteError"
    /\ abortCalls = 1
    /\ totalWritten > 0

\* C3: whenever the transfer succeeded, totalWritten equals the number of bytes
\* the stream made available during the session.
C3_SucceededWroteAllOffered ==
    outcome = "Succeeded" => totalWritten = offered

\* the stream has closed without ever offering a byte, and the run has ended
EmptyStreamRun ==
    /\ Terminal
    /\ beginOk = "true"
    /\ offered = 0
    /\ ~connected

\* C4 as stated: a run whose stream closed having yielded 0 bytes always ends
\* in IncompleteTransfer, whatever Update.end() returns.
C4_EmptyStreamAlwaysIncomplete ==
    EmptyStreamRun => outcome = "IncompleteTransfer"

\* C4 amended: a run whose stream closed having yielded 0 bytes issues no read,
\* no write and no abort, calls Update.end() exactly once with totalWritten 0,
\* and its outcome is what the partition's answers make it: FinalizeFailed when
\* Update.end() is false (Update.isFinished() is then not asked),
\* IncompleteTransfer when Update.end() is true and Update.isFinished() false,
\* Succeeded when both are true.
C4_EmptyStreamOutcome ==
    EmptyStreamRun =>
        /\ readCalls = 0 /\ writeCalls = 0 /\ abortCalls = 0
        /\ endCalls = 1
        /\ totalWritten = 0
        /\ endOk = "false" => (outcome = "FinalizeFailed" /\ finishedCalls = 0)
        /\ (endOk = "true" /\ finished = "false") => outcome = "IncompleteTransfer"
        /\ (endOk = "true" /\ finished = "true") => outcome = "Succeeded"

\* C4 witness: the empty stream closed and Update.end() refused the image
C4_Witness ==
    /\ EmptyStreamRun
    /\ pc = "idle"
    /\ outcome = "FinalizeFailed"

\* the declared length is N > 0, the stream produced exactly N bytes and
\* closed, every Update.write acknowledged its chunk, and the run has ended
ExactLengthRun ==
    /\ Terminal
    /\ beginOk = "true"
    /\ contentLength > 0
    /\ offered = contentLength
    /\ ~connected
    /\ shortWrites = 0

\* C5 as stated: such a run ends in Succeeded with totalWritten = N.
C5_ExactLengthSucceeds ==
    ExactLengthRun => (outcome = "Succeeded" /\ totalWritten = contentLength)

\* C5 amended: such a run never aborts, calls Update.end() exactly once, ends in
\* Succeeded exactly when Update.end() and Update.isFinished() both return
\* true, and its totalWritten is N less the bytes left unread in the stream
\* when the loop was left (N itself when nothing was left unread).
C5_ExactLengthOutcome ==
    ExactLengthRun =>
        /\ abortCalls = 0
        /\ endCalls = 1
        /\ outcome = "Succeeded" <=> (endOk = "true" /\ finished = "true")
        /\ totalWritten = contentLength - avail

\* C5 witness: 4096 declared, two arrivals of 2048, all written, success
C5_Witness ==
    /\ ExactLengthRun
    /\ contentLength = 2 * BufSize
    /\ arrivals = 2
    /\ outcome = "Succeeded"
    /\ totalWritten = contentLength

\* C6: with the declared length unknown, once the stream has closed while the
\* copy loop runs, the run eventually reaches one of its exits.
C6_ClosedStreamTerminates ==
    (pc \in LoopPcs /\ contentLength <= 0 /\ ~connected) ~> Terminal

\* C6 witness: length unknown, the stream closed with bytes still buffered,
\* and the run has ended after reading them
C6_Witness ==
    /\ Terminal
    /\ beginOk = "true"
    /\ contentLength <= 0
    /\ ~connected
    /\ offered > 0
    /\ avail = 0

\* C7 as stated: on the success path performHttpUpdate returns the success to
\* its caller and does not itself restart the device.
C7_RestartLeftToCaller ==
    outcome = "Succeeded" => (ret = "true" /\ restartBy # "performHttpUpdate")

\* C7 amended: on the success path performHttpUpdate itself calls
\* ESP.restart(), after http.end(), and never returns to its caller;
\* checkForUpdate never restarts the device and only ever gets false back.
C7_RestartInsideTransfer ==
    /\ outcome = "Succeeded" =>
            /\ restartBy = "performHttpUpdate"
            /\ pc = "restarted"
            /\ ret = "none"
            /\ httpEndCalls = 1
    /\ restartBy \in {"none", "performHttpUpdate"}
    /\ restartBy = "performHttpUpdate" => outcome = "Succeeded"
    /\ ret \in {"none", "false"}

\* C7 witness: the device restarted from inside performHttpUpdate
C7_Witness ==
    /\ pc = "restarted"
    /\ restartBy = "performHttpUpdate"
    /\ totalWritten > 0

\* C8: after a GET that returned a status other than 200, Update.begin, the
\* stream reads, Update.write, Update.end() and Update.abort() have not been
\* called, http.end() has been called once, and performHttpUpdate returned
\* false through the "no update" exit.
C8_Non200NeverEntersTransfer ==
    (getCalls >= 1 /\ httpCode # HTTP_CODE_OK) =>
        /\ beginArg = NotCalled /\ beginOk = "none"
        /\ ~polled /\ readCalls = 0 /\ writeCalls = 0
        /\ endCalls = 0 /\ finishedCalls = 0 /\ abortCalls = 0
        /\ httpEndCalls = 1
        /\ outcome = "NoUpdate"
        /\ ret = "false"
        /\ restartBy = "none"

\* C8 witness: the server answered 204 and checkForUpdate has returned
C8_Witness ==
    /\ pc = "idle"
    /\ getCalls = 1
    /\ httpCode = 204
    /\ outcome = "NoUpdate"

\* C9: when Update.begin returned false, the run ended through the
\* staging-begin-failed exit with nothing written, and no stream poll or read,
\* no Update.write, Update.end(), Update.isFinished() or Update.abort() was made.
C9_BeginFailureTouchesNothing ==
    beginOk = "false" =>
        /\ outcome = "StagingBeginFailed"
        /\ ret = "false"
        /\ totalWritten = 0
        /\ ~polled /\ readCalls = 0 /\ writeCalls = 0
        /\ endCalls = 0 /\ finishedCalls = 0 /\ abortCalls = 0

\* C9 witness: Update.begin refused and checkForUpdate has returned
C9_Witness ==
    /\ pc = "idle"
    /\ beginOk = "false"
    /\ outcome = "StagingBeginFailed"

\* C10: Update.begin gets UPDATE_SIZE_UNKNOWN for a declared length of 0 or
\* less and the declared length itself only when it is positive; with a length
\* of 0 or less the copy loop still runs and the run ends only through the
\* write-error exit or through Update.end(), and it succeeds only after
\* Update.end() and Update.isFinished() both returned true.
C10_NonPositiveLengthIsUnknown ==
    /\ beginArg # NotCalled =>
            /\ contentLength <= 0 => beginArg = UPDATE_SIZE_UNKNOWN
            /\ contentLength > 0 => beginArg = [mode |-> "size", size |-> contentLength]
            /\ beginArg.mode = "size" => beginArg.size > 0
    /\ (Terminal /\ beginOk = "true" /\ contentLength <= 0) =>
            /\ polled
            /\ outcome = "WriteError" \/ endCalls = 1
            /\ outcome = "Succeeded" =>
                    /\ endOk = "true"
                    /\ finishedCalls = 1
                    /\ finished = "true"

\* C10 witness: a declared length of 0 went through the loop and finalize
C10_Witness ==
    /\ Terminal
    /\ contentLength = 0
    /\ beginArg = UPDATE_SIZE_UNKNOWN
    /\ polled
    /\ writeCalls >= 1
    /\ endCalls = 1

\* C11: once Update.end() has been called and the run has ended, the outcome is
\* Succeeded exactly when Update.end() and Update.isFinished() both returned
\* true, FinalizeFailed when Update.end() returned false, IncompleteTransfer
\* when Update.end() returned true and Update.isFinished() false; and
\* Update.isFinished() is asked only after Update.end() returned true.
C11_FinalizeDecidesOutcome ==
    /\ (Terminal /\ endCalls >= 1) =>
            /\ outcome = "Succeeded" <=> (endOk = "true" /\ finished = "true")
            /\ endOk = "false" => outcome = "FinalizeFailed"
            /\ (endOk = "true" /\ finished = "false") => outcome = "IncompleteTransfer"
    /\ finishedCalls >= 1 => (endOk = "true" /\ finishedCalls = 1)
    /\ endOk # "true" => (finishedCalls = 0 /\ finished = "none")

\* C11 witness: Update.end() accepted the image and Update.isFinished() did not
C11_Witness ==
    /\ pc = "idle"
    /\ endOk = "true"
    /\ finished = "false"
    /\ outcome = "IncompleteTransfer"
    /\ totalWritten > 0

\* C12: performHttpUpdate is deterministic in the answers of its
\* collaborators.  A second call that is given, answer by answer, what the
\* first call was given (http.begin, GET and getSize, Update.begin,
\* available, connected, readBytes, write, end, isFinished) asks for the same
\* answers in the same order, ends through the same exit with the same
\* totalWritten, and has then used up exactly the recorded answers; the
\* values the first call left behind have no effect on it.
SecondRunAsks ==
    \/ pc \in {"get", "updateBegin", "poll", "checkConnected", "read", "write",
               "updateEnd", "isFinished"}
    \/ pc = "entry" /\ scheme \in {"http", "https"}

C12_SameAnswersSameOutcome ==
    run = 2 =>
        /\ SecondRunAsks => idx <= Len(script) /\ script[idx][1] = pc
        /\ outcome # "none" =>
              /\ idx = Len(script) + 1
              /\ outcome = outcome1
              /\ totalWritten = total1

\* the second call has ended after storing data, having started with the first
\* call's totalWritten still in place
C12_Witness ==
    /\ run = 2
    /\ outcome = "Succeeded"
    /\ total1 > 0
    /\ totalWritten = total1
    /\ idx = Len(script) + 1

\* a step never decreases totalWritten, leaves it 0 when it calls Update.begin
\* and leaves it alone when it is a short write
TotalWrittenStep ==
    /\ totalWritten' >= totalWritten
    /\ beginCalls' > beginCalls => totalWritten' = 0
    /\ shortWrites' > shortWrites => totalWritten' = totalWritten

\* C13: totalWritten always equals the sum of the counts of the fully
\* acknowledged writes; it is 0 when Update.begin has just been called, no step
\* decreases it, and a write that acknowledged another count does not change it.
C13_TotalIsSumOfAcks ==
    /\ [](totalWritten = ackedSum)
    /\ [][TotalWrittenStep]_vars

\* C13 witness: two writes acknowledged, then a short one
C13_Witness ==
    /\ writeCalls = 3
    /\ shortWrites = 1
    /\ totalWritten = ackedSum
    /\ totalWritten > BufSize

\* the state of the transfer session, read off the position of
\* performHttpUpdate and the exit it took
SessionState ==
    IF outcome = "Succeeded" THEN "Succeeded"
    ELSE IF abortCalls >= 1 THEN "Aborted"
    ELSE IF outcome \in {"StagingBeginFailed", "FinalizeFailed", "IncompleteTransfer"}
         THEN "Failed"
    ELSE IF pc \in LoopPcs THEN "Writing"
    ELSE IF pc \in {"updateEnd", "isFinished"} THEN "Finalizing"
    ELSE "Idle"

\* the transitions C14 lists
ListedTransitions ==
    {<<"Idle", "Writing">>, <<"Writing", "Finalizing">>,
     <<"Finalizing", "Succeeded">>, <<"Finalizing", "Failed">>,
     <<"Writing", "Aborted">>, <<"Finalizing", "Aborted">>}

\* Succeeded, Failed and Aborted are left by no step, and no Update.begin or
\* Update.write is made in them; Update.begin is made at most once
NoRetryStep ==
    SessionState \in {"Succeeded", "Failed", "Aborted"} =>
        /\ SessionState' = SessionState
        /\ beginCalls' = beginCalls
        /\ writeCalls' = writeCalls

NoRetryInsideARun ==
    /\ [](beginCalls <= 1)
    /\ [][NoRetryStep]_vars

\* a step changes the session state only along a listed transition
ListedStep ==
    SessionState' # SessionState =>
        <<SessionState, SessionState'>> \in ListedTransitions

\* a step changes the session state only along a listed transition or from
\* Idle to Failed on Update.begin returning false
ListedOrBeginFailureStep ==
    SessionState' # SessionState =>
        \/ <<SessionState, SessionState'>> \in ListedTransitions
        \/ /\ SessionState = "Idle"
           /\ SessionState' = "Failed"
           /\ beginOk' = "false"

\* C14 as stated: the session state changes only along Idle -> Writing ->
\* Finalizing -> {Succeeded, Failed} and into Aborted from Writing or
\* Finalizing; terminal states are absorbing and nothing is retried.
C14_OnlyListedTransitions ==
    /\ [][ListedStep]_vars
    /\ NoRetryInsideARun

\* C14 amended: the session state changes only along the listed transitions
\* and along Idle -> Failed, taken when Update.begin returns false; terminal
\* states are absorbing, Update.begin is made at most once, and no Update.begin
\* or Update.write is made after a failure.
C14_TransitionsWithBeginFailure ==
    /\ [][ListedOrBeginFailureStep]_vars
    /\ NoRetryInsideARun

\* C14 witness: a session that went through Writing into Aborted and returned
C14_Witness ==
    /\ pc = "idle"
    /\ SessionState = "Aborted"
    /\ beginCalls = 1
    /\ writeCalls >= 2

\* the smaller of two counts
MinOf(a, b) == IF a < b THEN a ELSE b

\* a step that reads asks for min(available, 2048); a step that writes gives
\* Update.write the count the read before it returned
ReadWriteStep ==
    /\ readCalls' > readCalls =>
          /\ readReq' = MinOf(sampled, BufSize)
          /\ readReq' >= 1
          /\ bytesRead' <= readReq'
    /\ writeCalls' > writeCalls =>
          /\ pc = "write"
          /\ writeLen' = bytesRead
          /\ bytesRead >= 1
          /\ bytesRead <= readReq

\* C15: every stream->readBytes() asks for min(available, 2048) bytes, and
\* every Update.write() is given exactly the count the read just before it
\* returned, which is at least 1, at most 2048 and at most what was asked for.
C15_WriteCarriesWhatWasRead ==
    /\ [](writeCalls >= 1 => (writeLen >= 1 /\ writeLen <= BufSize))
    /\ [][ReadWriteStep]_vars

\* C15 witness: 4096 bytes buffered, 2048 asked for, a partial read written
C15_Witness ==
    /\ sampled = 2 * BufSize
    /\ readReq = BufSize
    /\ writeCalls = 1
    /\ writeLen = BufSize \div 2

\* a step from the connected() check of a connected stream goes back to the poll
RepollStep == (pc = "checkConnected" /\ connected /\ pc' # pc) => pc' = "poll"

\* C16: as long as Update.begin has succeeded, the stream has offered nothing
\* and is still connected, performHttpUpdate sits in the poll of its loop: it
\* has made no read, Update.write, Update.end() or Update.abort() and has not
\* returned; from the connected() check it goes back to available().
C16_QuietStreamStalls ==
    /\ []((beginOk = "true" /\ offered = 0 /\ connected) =>
            /\ pc \in {"poll", "checkConnected"}
            /\ outcome = "none" /\ ret = "none" /\ restartBy = "none"
            /\ readCalls = 0 /\ writeCalls = 0
            /\ endCalls = 0 /\ abortCalls = 0)
    /\ [][RepollStep]_vars

\* C16 witness: the loop has polled the quiet stream and is back at the poll
C16_Witness ==
    /\ beginOk = "true"
    /\ offered = 0
    /\ connected
    /\ polled
    /\ pc = "poll"

\* C17: ESP.restart() has been called only in a run whose GET returned 200,
\* whose Update.begin succeeded, in which no write was short and no abort was
\* made, and whose Update.end() and Update.isFinished() returned true.
C17_RestartOnlyAfterSuccess ==
    restartBy # "none" =>
        /\ httpCode = HTTP_CODE_OK
        /\ beginOk = "true"
        /\ shortWrites = 0
        /\ abortCalls = 0
        /\ endOk = "true"
        /\ finished = "true"
        /\ outcome = "Succeeded"

\* C17 witness: the device restarted after a complete 4096-byte transfer
C17_Witness ==
    /\ restartBy = "performHttpUpdate"
    /\ contentLength = 2 * BufSize
    /\ totalWritten = 2 * BufSize

\* C18: a run whose Update.begin succeeded has, when it ends, called exactly
\* one of Update.abort() and Update.end(); never both are called in one run,
\* and neither is called unless Update.begin returned true.
C18_AbortXorFinalize ==
    /\ abortCalls + endCalls <= 1
    /\ (Terminal /\ beginOk = "true") => abortCalls + endCalls = 1
    /\ beginOk # "true" => (abortCalls = 0 /\ endCalls = 0)

\* C18 witness: a run that ended on the abort, without Update.end()
C18_Witness ==
    /\ pc = "returned"
    /\ beginOk = "true"
    /\ abortCalls = 1
    /\ endCalls = 0

\* C19: when performHttpUpdate has returned or restarted the device,
\* http.end() has been called exactly once if http.begin succeeded and not at
\* all otherwise (unsupported scheme, http.begin failure); it is never called
\* twice.
C19_HttpEndExactlyOnce ==
    /\ httpEndCalls <= 1
    /\ httpBeginOk # "true" => httpEndCalls = 0
    /\ Terminal => httpEndCalls = (IF httpBeginOk = "true" THEN 1 ELSE 0)

\* C19 witness: Update.end() failed and the connection was closed once
C19_Witness ==
    /\ pc = "returned"
    /\ outcome = "FinalizeFailed"
    /\ httpBeginOk = "true"
    /\ httpEndCalls = 1

\* C20: two consecutive checks of the periodic branch of loop() are at least
\* intervalMs of millis() time apart, counted modulo the wrap of the counter;
\* lastCheck is the `now` of the last such check (0 before the first); and the
\* branch makes no check while Wi-Fi is not connected.
C20_PeriodicChecksSpaced ==
    /\ gap = -1 \/ gap >= intervalMs
    /\ lastCheck = (IF prevAt = -1 THEN 0 ELSE prevAt)
    /\ ~offlineCheck

=============================================================================
